---- MODULE Spec2Model ----
(***************************************************************************)
(* Model of the detection-and-assembly pipeline of diagram-renderer:       *)
(* DiagramRenderer (src/diagram_renderer/__init__.py), MermaidRenderer     *)
(* (renderers/mermaid.py), PlantUMLRenderer (renderers/plantuml.py) and    *)
(* BaseRenderer (renderers/base.py).                                       *)
(*                                                                         *)
(* Texts are TLA+ strings; the Python string methods the code uses are     *)
(* operators over them, computed on the characters as Python computes them.*)
(***************************************************************************)
EXTENDS Integers, Sequences, FiniteSets, TLC

VARIABLES
    code,       \* the text handed to the entry point
    assets,     \* names of the runtime assets/templates the loader delivers
    pc,         \* "ready", then the entry point that has returned
    detected,   \* DiagramRenderer.detect_diagram_type(code)
    renderer,   \* the renderer whose clean_code / converter was called
    cleaned,    \* renderer.clean_code(code)
    recleaned,  \* renderer.clean_code(cleaned)
    dot,        \* PlantUMLRenderer.convert_plantuml_to_dot(code)
    result      \* DiagramRenderer.render_diagram_auto(code)

vars == <<code, assets, pc, detected, renderer, cleaned, recleaned, dot, result>>

(***************************************************************************)
(* Bounds of the explored input space.                                     *)
(***************************************************************************)
MaxLines == 2

MaxBlocks == 2

(***************************************************************************)
(* Python str methods.                                                     *)
(***************************************************************************)
\* the i-th character of s, empty beyond its ends
Ch(s, i) == IF i \in 1..Len(s) THEN SubSeq(s, i, i) ELSE ""

\* s.startswith(p)
StartsWith(s, p) == Len(p) <= Len(s) /\ SubSeq(s, 1, Len(p)) = p

\* s.endswith(p)
EndsWith(s, p) == Len(p) <= Len(s) /\ SubSeq(s, Len(s) - Len(p) + 1, Len(s)) = p

\* k in s
Contains(s, k) == \E i \in 1..(Len(s) - Len(k) + 1) : SubSeq(s, i, i + Len(k) - 1) = k

\* s.find(k, from) with 1-based positions; 0 when k does not occur
Find(s, k, from) ==
    LET hits == {i \in from..(Len(s) - Len(k) + 1) : SubSeq(s, i, i + Len(k) - 1) = k}
    IN  IF hits = {} THEN 0 ELSE CHOOSE i \in hits : \A j \in hits : i <= j

\* s.count(k) for non-empty k: non-overlapping occurrences, left to right
RECURSIVE CountFrom(_, _, _)
CountFrom(s, k, from) ==
    LET i == Find(s, k, from)
    IN  IF i = 0 THEN 0 ELSE 1 + CountFrom(s, k, i + Len(k))

Count(s, k) == CountFrom(s, k, 1)

\* the lower-case form of each upper-case letter
LowerOf ==
    "A" :> "a" @@ "B" :> "b" @@ "C" :> "c" @@ "D" :> "d" @@ "E" :> "e" @@ "F" :> "f" @@
    "G" :> "g" @@ "H" :> "h" @@ "I" :> "i" @@ "J" :> "j" @@ "K" :> "k" @@ "L" :> "l" @@
    "M" :> "m" @@ "N" :> "n" @@ "O" :> "o" @@ "P" :> "p" @@ "Q" :> "q" @@ "R" :> "r" @@
    "S" :> "s" @@ "T" :> "t" @@ "U" :> "u" @@ "V" :> "v" @@ "W" :> "w" @@ "X" :> "x" @@
    "Y" :> "y" @@ "Z" :> "z"

LowerChar(c) == IF c \in DOMAIN LowerOf THEN LowerOf[c] ELSE c

\* s.lower()
RECURSIVE LowerFrom(_, _)
LowerFrom(s, i) == IF i > Len(s) THEN "" ELSE LowerChar(Ch(s, i)) \o LowerFrom(s, i + 1)

Lower(s) == LowerFrom(s, 1)

\* the characters str.strip(), str.split() and the regex class \s treat as blank
Whitespace == {" ", "\t", "\n", "\r"}

IsSpace(c) == c \in Whitespace

\* s.lstrip()
LStrip(s) ==
    LET solid == {i \in 1..Len(s) : ~IsSpace(Ch(s, i))}
    IN  IF solid = {} THEN ""
        ELSE SubSeq(s, CHOOSE i \in solid : \A j \in solid : i <= j, Len(s))

\* s.rstrip()
RStrip(s) ==
    LET solid == {i \in 1..Len(s) : ~IsSpace(Ch(s, i))}
    IN  IF solid = {} THEN ""
        ELSE SubSeq(s, 1, CHOOSE i \in solid : \A j \in solid : i >= j)

\* s.strip()
Strip(s) == RStrip(LStrip(s))

\* s.strip(c) for a single character c
StripChar(s, c) ==
    LET solid == {i \in 1..Len(s) : Ch(s, i) # c}
    IN  IF solid = {} THEN ""
        ELSE SubSeq(s, CHOOSE i \in solid : \A j \in solid : i <= j,
                       CHOOSE i \in solid : \A j \in solid : i >= j)

\* s.split(sep, maxsplit) for a non-empty sep; maxsplit = -1 means no limit
RECURSIVE SplitFrom(_, _, _, _)
SplitFrom(s, sep, from, maxsplit) ==
    LET i == IF maxsplit = 0 THEN 0 ELSE Find(s, sep, from)
    IN  IF i = 0 THEN <<SubSeq(s, from, Len(s))>>
        ELSE <<SubSeq(s, from, i - 1)>>
             \o SplitFrom(s, sep, i + Len(sep), IF maxsplit < 0 THEN maxsplit ELSE maxsplit - 1)

Split(s, sep) == SplitFrom(s, sep, 1, -1)

SplitMax(s, sep, maxsplit) == SplitFrom(s, sep, 1, maxsplit)

\* s.split(): the maximal runs of non-blank characters
RECURSIVE WordsFrom(_, _)
WordsFrom(s, from) ==
    LET solid == {i \in from..Len(s) : ~IsSpace(Ch(s, i))}
    IN  IF solid = {} THEN <<>>
        ELSE LET b == CHOOSE i \in solid : \A j \in solid : i <= j
                 blanks == {i \in b..Len(s) : IsSpace(Ch(s, i))}
                 e == IF blanks = {} THEN Len(s) + 1
                      ELSE CHOOSE i \in blanks : \A j \in blanks : i <= j
             IN  <<SubSeq(s, b, e - 1)>> \o WordsFrom(s, e)

SplitWords(s) == WordsFrom(s, 1)

\* s.splitlines(): "\n", "\r" and "\r\n" end a line; no empty last line
RECURSIVE LinesFrom(_, _)
LinesFrom(s, from) ==
    IF from > Len(s) THEN <<>>
    ELSE LET brk == {i \in from..Len(s) : Ch(s, i) \in {"\n", "\r"}}
         IN  IF brk = {} THEN <<SubSeq(s, from, Len(s))>>
             ELSE LET i == CHOOSE b \in brk : \A j \in brk : b <= j
                      w == IF Ch(s, i) = "\r" /\ i < Len(s) /\ Ch(s, i + 1) = "\n"
                           THEN 2 ELSE 1
                  IN  <<SubSeq(s, from, i - 1)>> \o LinesFrom(s, i + w)

SplitLines(s) == LinesFrom(s, 1)

\* sep.join(parts)
RECURSIVE Join(_, _)
Join(parts, sep) ==
    IF parts = <<>> THEN ""
    ELSE IF Len(parts) = 1 THEN parts[1]
    ELSE parts[1] \o sep \o Join(Tail(parts), sep)

\* any(k in s for k in ks)
ContainsAny(s, ks) == \E i \in 1..Len(ks) : Contains(s, ks[i])

(***************************************************************************)
(* MermaidRenderer.detect_diagram_type                                     *)
(***************************************************************************)
strong_mermaid_indicators ==
    <<"graph ", "flowchart ", "sequencediagram", "classdiagram", "statediagram",
      "erdiagram", "journey", "gantt", "pie ", "mindmap", "timeline", "c4context",
      "quadrantchart", "requirement", "requirementdiagram">>

external_diagram_indicators ==
    <<"xychart-beta", "sankey", "sankey-beta", "block-beta", "gitgraph">>

\* the participant/actor context test of the Mermaid detector
MermaidSequenceContext(code_lower) ==
    \/ Contains(code_lower, "sequencediagram")
    \/ Contains(code_lower, "-->")
    \/ Contains(code_lower, "->>")
    \/ /\ Contains(code_lower, "participant ")
       /\ (Contains(code_lower, "as ") \/ Contains(code_lower, ":"))

MermaidDetect(text) ==
    LET code_lower == Lower(Strip(text))
    IN  \/ ContainsAny(code_lower, strong_mermaid_indicators)
        \/ ContainsAny(code_lower, external_diagram_indicators)
        \/ /\ (Contains(code_lower, "participant ") \/ Contains(code_lower, "actor "))
           /\ MermaidSequenceContext(code_lower)

(***************************************************************************)
(* PlantUMLRenderer.detect_diagram_type                                    *)
(***************************************************************************)
strong_plantuml_indicators ==
    <<"@startuml", "@startmindmap", "@startgantt", "@startclass", "@enduml",
      "skinparam", "!theme", "!include">>

mermaid_indicators ==
    <<"flowchart ", "graph ", "sequencediagram", "classdiagram", "statediagram",
      "erdiagram", "journey", "gantt", "pie ", "gitgraph", "requirement", "mindmap",
      "timeline", "block-beta", "c4context">>

plantuml_weak_indicators ==
    <<"boundary ", "control ", "entity ", "database ", "collections ", "queue ">>

\* the context test without the colon of a labelled message
PlantUMLSequenceContext_nocolon(code_lower) ==
    \/ Contains(code_lower, "sequencediagram")
    \/ Contains(code_lower, "-->")
    \/ Contains(code_lower, "->>")
    \/ /\ Contains(code_lower, "participant ")
       /\ Contains(code_lower, "as ")

\* the participant/actor context test of the PlantUML detector
PlantUMLSequenceContext(code_lower) ==
    \/ Contains(code_lower, "sequencediagram")
    \/ Contains(code_lower, "-->")
    \/ Contains(code_lower, "->>")
    \/ /\ Contains(code_lower, "participant ")
       /\ (Contains(code_lower, "as ") \/ Contains(code_lower, ":"))

\* some line, left-stripped, starts with a weak indicator
WeakIndicatorAtLineStart(code_lower) ==
    LET lines == SplitLines(code_lower)
    IN  \E i \in 1..Len(lines) :
            \E t \in 1..Len(plantuml_weak_indicators) :
                StartsWith(LStrip(lines[i]), plantuml_weak_indicators[t])

PlantUMLDetect(text) ==
    LET code_lower == Lower(Strip(text))
    IN  IF ContainsAny(code_lower, strong_plantuml_indicators) THEN TRUE
        ELSE IF ContainsAny(code_lower, mermaid_indicators) THEN FALSE
        ELSE IF Contains(code_lower, "participant ") \/ Contains(code_lower, "actor ")
             THEN ~PlantUMLSequenceContext(code_lower)
        ELSE IF WeakIndicatorAtLineStart(code_lower) THEN TRUE
        ELSE Contains(code_lower, "class ") /\ ~Contains(code_lower, "classdiagram")

(***************************************************************************)
(* GraphvizRenderer.detect_diagram_type: the generic-graph detector.  Its  *)
(* keyword list is the one the no-type-detected page names for Graphviz.   *)
(***************************************************************************)
graphviz_indicators == <<"digraph", "graph", "strict digraph", "strict graph">>

GraphvizDetect(text) ==
    LET code_lower == Lower(Strip(text))
    IN  \E i \in 1..Len(graphviz_indicators) : StartsWith(code_lower, graphviz_indicators[i])

(***************************************************************************)
(* DiagramRenderer.__init__ and DiagramRenderer.detect_diagram_type        *)
(***************************************************************************)
\* the alternative registration order, generic-graph first
renderers_reversed == <<"graphviz", "plantuml", "mermaid">>

\* self.renderers, in registration order
renderers == <<"mermaid", "plantuml", "graphviz">>

\* renderer.detect_diagram_type(text) of the renderer registered as name
RendererDetects(name, text) ==
    CASE name = "mermaid"  -> MermaidDetect(text)
      [] name = "plantuml" -> PlantUMLDetect(text)
      [] name = "graphviz" -> GraphvizDetect(text)

\* a fall-through that defaults to the flowchart-family grammar
NoTypeDetected_mermaid == "mermaid"

\* the value returned when the loop over self.renderers ends (Python None)
NoTypeDetected == "none"

\* the first registered renderer whose detector fires
FirstDetecting(text) ==
    LET hits == {i \in 1..Len(renderers) : RendererDetects(renderers[i], text)}
    IN  IF hits = {} THEN NoTypeDetected
        ELSE renderers[CHOOSE i \in hits : \A j \in hits : i <= j]

(***************************************************************************)
(* clean_code of the three renderers                                       *)
(***************************************************************************)
\* MermaidRenderer.clean_code
MermaidCleanCode(text) == Strip(text)

\* GraphvizRenderer.clean_code: normalization of the graph grammar is a trim
GraphvizCleanCode(text) == Strip(text)

\* a start-marker test that searches the whole body
HasStartMarker_anywhere(s) == Contains(s, "@start")

\* code.startswith("@start")
HasStartMarker(s) == StartsWith(s, "@start")

\* an end-marker test written for text that still carries its final newline
HasEndMarker_newline(s) == EndsWith(s, "@enduml\n")

\* code.endswith("@enduml")
HasEndMarker(s) == EndsWith(s, "@enduml")

\* PlantUMLRenderer.clean_code
PlantUMLCleanCode(text) ==
    LET stripped == Strip(text)
        started  == IF ~HasStartMarker(stripped) THEN "@startuml\n" \o stripped ELSE stripped
    IN  IF ~HasEndMarker(started) THEN started \o "\n@enduml" ELSE started

\* renderer.clean_code(text) of the renderer registered as name
CleanCode(name, text) ==
    CASE name = "mermaid"  -> MermaidCleanCode(text)
      [] name = "plantuml" -> PlantUMLCleanCode(text)
      [] name = "graphviz" -> GraphvizCleanCode(text)

(***************************************************************************)
(* PlantUMLRenderer: translation to DOT.  A translation result records     *)
(* whether the call raised, the branch taken, the returned text, and the   *)
(* node and edge statements the text was assembled from.                   *)
(***************************************************************************)
Translation(branch, text, nodes, edges) ==
    [raised |-> FALSE, branch |-> branch, text |-> text, nodes |-> nodes, edges |-> edges]

\* an exception leaving the translator
Raised(branch, error) ==
    [raised |-> TRUE, branch |-> branch, text |-> error, nodes |-> <<>>, edges |-> <<>>]

\* "".join(stmts)
RECURSIVE Concat(_)
Concat(stmts) == IF stmts = <<>> THEN "" ELSE Head(stmts) \o Concat(Tail(stmts))

\* what one line contributes in _convert_sequence_to_dot
SequenceLine(raw) ==
    LET line == Strip(raw)
        none == [kind |-> "skip", name |-> "", from_p |-> "", to_p |-> "", label |-> ""]
    IN  IF StartsWith(line, "participant") \/ StartsWith(line, "actor")
        THEN LET words == SplitWords(line)
             IN  IF Len(words) < 2
                 THEN [none EXCEPT !.kind = "raise"]
                 ELSE [none EXCEPT !.kind = "node",
                                   !.name = IF Contains(line, " as ")
                                            THEN StripChar(Strip(Split(line, " as ")[2]), "\"")
                                            ELSE StripChar(words[2], "\"")]
        ELSE IF Contains(line, "->")
        THEN LET parts == Split(line, "->")
             IN  IF Len(parts) = 2
                 THEN LET to_part == Strip(parts[2])
                      IN  [none EXCEPT !.kind = "edge",
                                       !.from_p = Strip(parts[1]),
                                       !.to_p = IF Contains(to_part, ":")
                                                THEN Strip(Split(to_part, ":")[1])
                                                ELSE to_part,
                                       !.label = IF Contains(to_part, ":")
                                                 THEN Strip(SplitMax(to_part, ":", 1)[2])
                                                 ELSE ""]
                 ELSE none
        ELSE none

\* PlantUMLRenderer._convert_sequence_to_dot
ConvertSequenceToDot(lines) ==
    LET items == [i \in 1..Len(lines) |-> SequenceLine(lines[i])]
        participants == SelectSeq(items, LAMBDA it : it.kind = "node")
        connections  == SelectSeq(items, LAMBDA it : it.kind = "edge")
        nodes == [i \in 1..Len(participants) |-> "  \"" \o participants[i].name \o "\";\n"]
        edges == [i \in 1..Len(connections) |->
                    IF connections[i].label # ""
                    THEN "  \"" \o connections[i].from_p \o "\" -> \"" \o connections[i].to_p
                         \o "\" [label=\"" \o connections[i].label \o "\"];\n"
                    ELSE "  \"" \o connections[i].from_p \o "\" -> \"" \o connections[i].to_p
                         \o "\";\n"]
    IN  IF \E i \in 1..Len(items) : items[i].kind = "raise"
        THEN Raised("sequence", "list index out of range")
        ELSE Translation("sequence",
                         "digraph sequence {\n" \o "  rankdir=LR;\n"
                         \o "  node [shape=box, style=filled, fillcolor=white];\n"
                         \o Concat(nodes) \o Concat(edges) \o "}",
                         nodes, edges)

\* what one line contributes in _convert_class_to_dot
ClassLine(raw) ==
    LET line == Strip(raw)
        none == [kind |-> "skip", name |-> "", parent |-> "", child |-> ""]
    IN  IF StartsWith(line, "class ")
        THEN [none EXCEPT !.kind = "node",
                          !.name = Strip(Split(SplitWords(line)[2], "{")[1])]
        ELSE IF Contains(line, "<|--")
        THEN LET parts == Split(line, "<|--")
             IN  [none EXCEPT !.kind = "edge",
                              !.parent = Strip(parts[2]),
                              !.child = Strip(parts[1])]
        ELSE none

\* PlantUMLRenderer._convert_class_to_dot
ConvertClassToDot(lines) ==
    LET items == [i \in 1..Len(lines) |-> ClassLine(lines[i])]
        classes       == SelectSeq(items, LAMBDA it : it.kind = "node")
        relationships == SelectSeq(items, LAMBDA it : it.kind = "edge")
        nodes == [i \in 1..Len(classes) |->
                    "  \"" \o classes[i].name \o "\" [label=\"" \o classes[i].name \o "\"];\n"]
        edges == [i \in 1..Len(relationships) |->
                    "  \"" \o relationships[i].parent \o "\" -> \"" \o relationships[i].child
                    \o "\" [arrowhead=empty];\n"]
    IN  Translation("class",
                    "digraph classes {\n"
                    \o "  node [shape=record, style=filled, fillcolor=white];\n"
                    \o Concat(nodes) \o Concat(edges) \o "}",
                    nodes, edges)

\* the table of known unsupported shapes: pattern, id, description
unsupported_types ==
    << <<"@startmindmap", "mindmap", "Mind maps">>,
       <<"@startsalt", "salt", "Salt UI mockups">>,
       <<"@startgantt", "gantt", "Gantt charts">>,
       <<"@startuml\nstart\n", "activity", "Activity diagrams">>,
       <<":start;", "activity", "Activity diagrams with complex control flow">>,
       <<"object ", "object", "Object diagrams">>,
       <<"robust", "timing", "Timing diagrams">> >>

UnsupportedPrefix == "UNSUPPORTED_PLANTUML_TYPE:"

\* the scan of the table keeps the last entry that matches
DetectUnsupportedPlantumlType_last(text) ==
    LET code_lower == Lower(text)
        hits == {i \in 1..Len(unsupported_types) : Contains(code_lower, unsupported_types[i][1])}
    IN  IF hits # {}
        THEN LET last == CHOOSE i \in hits : \A j \in hits : j <= i
             IN  UnsupportedPrefix \o unsupported_types[last][2] \o ":"
                 \o unsupported_types[last][3]
        ELSE UnsupportedPrefix \o "unknown:Advanced PlantUML features"

\* PlantUMLRenderer._detect_unsupported_plantuml_type
DetectUnsupportedPlantumlType(text) ==
    LET code_lower == Lower(text)
        hits == {i \in 1..Len(unsupported_types) : Contains(code_lower, unsupported_types[i][1])}
    IN  IF hits # {}
        THEN LET first == CHOOSE i \in hits : \A j \in hits : i <= j
             IN  UnsupportedPrefix \o unsupported_types[first][2] \o ":"
                 \o unsupported_types[first][3]
        ELSE UnsupportedPrefix \o "unknown:Advanced PlantUML features"

\* the catch-all descriptor in place of the placeholder graph
GenerateFallbackDot_descriptor == UnsupportedPrefix \o "unknown:Advanced PlantUML features"

\* PlantUMLRenderer._generate_fallback_dot
GenerateFallbackDot ==
    "digraph G {\n"
    \o "    node [shape=box, style=\"filled\", fillcolor=\"lightyellow\"];\n"
    \o "    PlantUML [label=\"PlantUML Diagram\\n(Local Rendering)\"];\n"
    \o "    Note [label=\"This PlantUML diagram type\\nis not fully supported\\nfor local rendering\", shape=note, fillcolor=\"lightblue\"];\n"
    \o "    PlantUML -> Note [style=dashed];\n"
    \o "}"

\* PlantUMLRenderer.convert_plantuml_to_dot
ConvertPlantumlToDot(plantuml_code) ==
    LET clean_code == PlantUMLCleanCode(plantuml_code)
        lines == Split(clean_code, "\n")
    IN  IF \E i \in 1..Len(lines) : \/ Contains(lines[i], "participant")
                                    \/ Contains(lines[i], "actor")
                                    \/ Contains(lines[i], "->")
        THEN ConvertSequenceToDot(lines)
        ELSE IF \E i \in 1..Len(lines) : Contains(lines[i], "class")
        THEN ConvertClassToDot(lines)
        ELSE LET unsupported == DetectUnsupportedPlantumlType(clean_code)
             IN  IF /\ StartsWith(unsupported, UnsupportedPrefix)
                    /\ SplitMax(unsupported, ":", 2)[2] # "unknown"
                 THEN Translation("unsupported", unsupported, <<>>, <<>>)
                 ELSE Translation("fallback", GenerateFallbackDot, <<>>, <<>>)

(***************************************************************************)
(* DiagramRenderer._extract_all_code_blocks                                *)
(***************************************************************************)
\* The backquote cannot be written inside a TLA+ string; the character "~",
\* which none of the modelled texts uses otherwise, stands for it.
BackQuote == "~"

\* the three backquotes that open and close a fenced block
Fence == BackQuote \o BackQuote \o BackQuote

\* the blank characters that follow position from, as a count
RECURSIVE BlankRun(_, _)
BlankRun(s, from) ==
    IF from <= Len(s) /\ IsSpace(Ch(s, from)) THEN 1 + BlankRun(s, from + 1) ELSE 0

\* One attempt of the pattern <opener, blanks, newline, body, newline, fence>
\* where after is the position behind the opener.  The run of blanks is
\* greedy and backtracks: the longest run wins for which the rest still
\* matches.  The body is lazy: it ends at the first newline-plus-fence.
FenceMatchAt(s, after) ==
    LET run == BlankRun(s, after)
        ok  == {k \in 0..run : /\ Ch(s, after + k) = "\n"
                               /\ Find(s, "\n" \o Fence, after + k + 1) # 0}
    IN  IF ok = {} THEN [found |-> FALSE, body |-> "", next |-> 0]
        ELSE LET k == CHOOSE x \in ok : \A y \in ok : x >= y
                 b == after + k + 1
                 e == Find(s, "\n" \o Fence, b)
             IN  [found |-> TRUE, body |-> SubSeq(s, b, e - 1), next |-> e + 1 + Len(Fence)]

\* pattern.findall(code): the bodies of the non-overlapping matches, left to
\* right.  hay is the text the opener is searched in (lower-cased when the
\* pattern is compiled with IGNORECASE).
RECURSIVE FindAllFrom(_, _, _, _)
FindAllFrom(s, hay, opener, from) ==
    LET i == Find(hay, opener, from)
    IN  IF i = 0 THEN <<>>
        ELSE LET m == FenceMatchAt(s, i + Len(opener))
             IN  IF m.found THEN <<m.body>> \o FindAllFrom(s, hay, opener, m.next)
                 ELSE FindAllFrom(s, hay, opener, i + 1)

\* the pattern of one prefix, compiled with DOTALL | IGNORECASE; lowered is
\* the text in lower case
PrefixedBlocks(s, lowered, prefix) == FindAllFrom(s, lowered, Fence \o prefix, 1)

\* generic_pattern, compiled with DOTALL
GenericBlocks(s) == FindAllFrom(s, s, Fence, 1)

\* the bodies found for all prefixes, one prefix after the other
RECURSIVE AllPrefixedBlocks(_, _, _)
AllPrefixedBlocks(s, lowered, prefixes) ==
    IF prefixes = <<>> THEN <<>>
    ELSE PrefixedBlocks(s, lowered, Head(prefixes))
         \o AllPrefixedBlocks(s, lowered, Tail(prefixes))

\* the loop that appends the generic blocks that are not duplicates
RECURSIVE AddGenericBlocks(_, _)
AddGenericBlocks(extracted_blocks, generic_blocks) ==
    IF generic_blocks = <<>> THEN extracted_blocks
    ELSE LET g_block == Head(generic_blocks)
             is_duplicate == \E i \in 1..Len(extracted_blocks) :
                                 \/ Contains(extracted_blocks[i], g_block)
                                 \/ Contains(g_block, extracted_blocks[i])
         IN  AddGenericBlocks(IF is_duplicate THEN extracted_blocks
                              ELSE Append(extracted_blocks, g_block),
                              Tail(generic_blocks))

\* [block.strip() for block in blocks if block.strip()]
RECURSIVE StripNonEmpty(_)
StripNonEmpty(blocks) ==
    IF blocks = <<>> THEN <<>>
    ELSE IF Strip(Head(blocks)) = "" THEN StripNonEmpty(Tail(blocks))
    ELSE <<Strip(Head(blocks))>> \o StripNonEmpty(Tail(blocks))

ExtractAllCodeBlocks(text, prefixes) ==
    StripNonEmpty(AddGenericBlocks(AllPrefixedBlocks(text, Lower(text), prefixes),
                                   GenericBlocks(text)))

\* the prefixes render_diagram_auto passes
KnownPrefixes == <<"mermaid", "plantuml", "uml", "dot", "graphviz">>

(***************************************************************************)
(* Documents.  A returned HTML text is recorded by what it is made of:     *)
(*   kind      which generator produced it                                 *)
(*   complete  it opens with <!DOCTYPE html> and declares charset utf-8    *)
(*   marker    it carries <meta name="diagram-render-status"               *)
(*             content="error">                                            *)
(*   source    the diagram text inserted into it                           *)
(*   detail    the message, requirement list or engine input inserted      *)
(***************************************************************************)
Document(kind, complete, marker, source, detail) ==
    [kind |-> kind, complete |-> complete, marker |-> marker,
     source |-> source, detail |-> detail]

\* DiagramRenderer._generate_no_diagram_detected_error_html
GenerateNoDiagramDetectedErrorHtml(original_code) ==
    Document("no_type_detected", TRUE, FALSE, original_code, "")

\* DiagramRenderer._generate_rendering_error_html
GenerateRenderingErrorHtml(original_code, error_message) ==
    Document("rendering_error", TRUE, TRUE, original_code, error_message)

\* the lines of plugin_list, each bullet glyph written as "*"
RECURSIVE PluginList(_)
PluginList(missing_plugins) ==
    IF missing_plugins = <<>> THEN <<>>
    ELSE << "* " \o Head(missing_plugins).description,
            "  Required file: static/js/" \o Head(missing_plugins).plugin_needed >>
         \o PluginList(Tail(missing_plugins))

\* error_pages.generate_unsupported_diagram_error_html
GenerateUnsupportedDiagramErrorHtml(missing_plugins, original_code) ==
    Document("unsupported", TRUE, TRUE, original_code,
             Join(PluginList(missing_plugins), "\\n"))

\* MermaidRenderer._generate_missing_plugin_error_html
GenerateMissingPluginErrorHtml(missing_plugins, original_code) ==
    Document("unsupported", TRUE, TRUE, original_code,
             Join(PluginList(missing_plugins), "\n"))

\* MermaidRenderer._generate_error_html and the bare <div>Error: ...</div>
\* texts of BaseRenderer._render_unified_html
GenerateErrorHtml(error_message) ==
    Document("missing_asset", FALSE, FALSE, "", error_message)

\* json.dumps of one character (texts are ASCII here, so ensure_ascii
\* changes nothing)
JsonEscapeChar(c) ==
    CASE c = "\"" -> "\\\""
      [] c = "\\" -> "\\\\"
      [] c = "\n" -> "\\n"
      [] c = "\t" -> "\\t"
      [] c = "\r" -> "\\r"
      [] OTHER -> c

RECURSIVE JsonEscapeFrom(_, _)
JsonEscapeFrom(s, i) ==
    IF i > Len(s) THEN "" ELSE JsonEscapeChar(Ch(s, i)) \o JsonEscapeFrom(s, i + 1)

\* escaped_original = json.dumps(code)
JsonDumps(s) == "\"" \o JsonEscapeFrom(s, 1) \o "\""

\* the unified template with its placeholders filled in; source is the value
\* put in for the placeholder {escaped_original}
SuccessDocument(original_code, engine_input) ==
    Document("success", TRUE, FALSE, JsonDumps(original_code), engine_input)

(***************************************************************************)
(* Runtime assets: BaseRenderer.get_static_js_content and                  *)
(* get_template_content return None for a name that is not in assets.      *)
(***************************************************************************)
RequiredAssets ==
    {"mermaid.min.js", "panzoom.min.js", "viz-lite.js", "viz-full.js", "unified.html"}

PluginAssets == {"mermaid-xychart.min.js", "mermaid-sankey.min.js"}

Available(name) == name \in assets

\* the outcome of a render_html call: a document, or an exception message
Returned(doc) == [raised |-> FALSE, doc |-> doc, error |-> ""]

Threw(error) == [raised |-> TRUE, doc |-> GenerateErrorHtml(""), error |-> error]

(***************************************************************************)
(* MermaidRenderer.render_html                                             *)
(***************************************************************************)
Requirement(type, plugin_needed, description) ==
    [type |-> type, plugin_needed |-> plugin_needed, description |-> description]

\* MermaidRenderer.detect_external_diagram_requirements
DetectExternalDiagramRequirements(text) ==
    LET code_lower == Lower(Strip(text))
    IN  (IF Contains(code_lower, "xychart-beta")
         THEN <<Requirement("xychart-beta", "mermaid-xychart.min.js",
                  "XY Chart (Beta) diagrams require the mermaid-xychart plugin")>>
         ELSE <<>>)
        \o
        (IF Contains(code_lower, "sankey")
         THEN <<Requirement("sankey", "mermaid-sankey.min.js",
                  "Sankey diagrams require the mermaid-sankey plugin")>>
         ELSE <<>>)
        \o
        (IF Contains(code_lower, "block-beta")
         THEN <<Requirement("block-beta", "Full Mermaid support for block diagrams",
                  "Block diagrams (beta) may require a newer Mermaid version with full block diagram support")>>
         ELSE <<>>)
        \o
        (IF Contains(code_lower, "gitgraph")
         THEN <<Requirement("gitgraph", "Full Mermaid support for git graphs",
                  "Git graph diagrams may require a newer Mermaid version or additional configuration")>>
         ELSE <<>>)

MermaidRenderHtml(text) ==
    LET external_requirements == DetectExternalDiagramRequirements(text)
        missing_plugins ==
            SelectSeq(external_requirements,
                      LAMBDA req :
                          \/ req.type = "xychart-beta" /\ ~Available("mermaid-xychart.min.js")
                          \/ req.type = "sankey" /\ ~Available("mermaid-sankey.min.js")
                          \/ req.type = "block-beta"
                          \/ req.type = "gitgraph")
    IN  IF ~Available("mermaid.min.js")
        THEN Returned(GenerateErrorHtml("Mermaid.js not available"))
        ELSE IF ~Available("panzoom.min.js")
        THEN Returned(GenerateErrorHtml("Panzoom.js not available"))
        ELSE IF missing_plugins # <<>>
        THEN Returned(GenerateMissingPluginErrorHtml(missing_plugins, text))
        ELSE IF ~Available("unified.html")
        THEN Returned(GenerateErrorHtml("Unified template not available"))
        ELSE Returned(SuccessDocument(text, MermaidCleanCode(text)))

(***************************************************************************)
(* BaseRenderer._render_unified_html and PlantUMLRenderer.render_html      *)
(***************************************************************************)
RenderUnifiedHtml(dot_code, original_code) ==
    IF ~Available("viz-lite.js")
    THEN Threw("unsupported operand type(s) for +: NoneType and str")
    ELSE IF ~Available("viz-full.js")
    THEN Threw("can only concatenate str (not NoneType) to str")
    ELSE IF ~Available("panzoom.min.js")
    THEN Returned(GenerateErrorHtml("Panzoom.js not available"))
    ELSE IF ~Available("unified.html")
    THEN Returned(GenerateErrorHtml("Unified template not available"))
    ELSE Returned(SuccessDocument(original_code, dot_code))

\* missing_plugins always with the default description
UnsupportedRequirement_default(parts) ==
    <<Requirement("plantuml-" \o parts[2], "Full PlantUML engine support",
                  "Advanced PlantUML features"
                  \o " are not supported by the VizJS-based PlantUML renderer")>>

\* missing_plugins of render_html, from parts = dot_code.split(":", 2)
UnsupportedRequirement(parts) ==
    <<Requirement("plantuml-" \o parts[2], "Full PlantUML engine support",
                  parts[3] \o " are not supported by the VizJS-based PlantUML renderer")>>

\* the try body of render_html once the translation dot_code is known
RenderTranslation(dot_code, text) ==
    IF dot_code.raised THEN Threw(dot_code.text)
    ELSE IF StartsWith(dot_code.text, UnsupportedPrefix)
    THEN Returned(GenerateUnsupportedDiagramErrorHtml(
                      UnsupportedRequirement(SplitMax(dot_code.text, ":", 2)), text))
    ELSE RenderUnifiedHtml(dot_code.text, text)

\* the except clause of render_html
ReraiseRenderingError(inner) ==
    IF inner.raised THEN Threw("Error rendering PlantUML diagram: " \o inner.error)
    ELSE inner

PlantUMLRenderHtml(text) ==
    ReraiseRenderingError(RenderTranslation(ConvertPlantumlToDot(text), text))

(***************************************************************************)
(* GraphvizRenderer.render_html: assembly for the graph grammar; a missing *)
(* runtime asset or template gives the missing-asset document.             *)
(***************************************************************************)
GraphvizRenderHtml(text) ==
    IF \E a \in {"viz-lite.js", "viz-full.js", "panzoom.min.js", "unified.html"} : ~Available(a)
    THEN Returned(GenerateErrorHtml("asset not available"))
    ELSE Returned(SuccessDocument(text, text))

\* renderer.render_html(text) of the renderer registered as name
RenderHtml(name, text) ==
    CASE name = "mermaid"  -> MermaidRenderHtml(text)
      [] name = "plantuml" -> PlantUMLRenderHtml(text)
      [] name = "graphviz" -> GraphvizRenderHtml(text)

(***************************************************************************)
(* DiagramRenderer._render_single_diagram and render_diagram_auto          *)
(***************************************************************************)
\* Python None, or an empty text: what "if rendered_html" rejects
NoHtml == Document("none", FALSE, FALSE, "", "")

\* the loop of _render_single_diagram that sets detected_renderer
PickRenderer(text) ==
    LET hits == {i \in 1..Len(renderers) : RendererDetects(renderers[i], text)}
    IN  IF hits = {} THEN "none"
        ELSE renderers[CHOOSE i \in hits : \A j \in hits : i <= j]

\* a block without detected renderer is given up silently
NoRendererOutcome_none(code_to_process) == NoHtml

\* the else branch of _render_single_diagram
NoRendererOutcome(code_to_process) == GenerateNoDiagramDetectedErrorHtml(code_to_process)

\* the except clause drops the message of the exception
RenderedOrErrorPage_nomessage(outcome, code_to_process) ==
    IF outcome.raised THEN GenerateRenderingErrorHtml(code_to_process, "")
    ELSE outcome.doc

\* the try/except of _render_single_diagram around clean_code and render_html
RenderedOrErrorPage(outcome, code_to_process) ==
    IF outcome.raised THEN GenerateRenderingErrorHtml(code_to_process, outcome.error)
    ELSE outcome.doc

\* the if/else on detected_renderer
RenderWithPicked(picked, code_to_process) ==
    IF picked = "none"
    THEN [doc |-> NoRendererOutcome(code_to_process), picked |-> picked]
    ELSE [doc |-> RenderedOrErrorPage(
                      RenderHtml(picked, CleanCode(picked, code_to_process)),
                      code_to_process),
          picked |-> picked]

\* the document of one block, with the renderer that was picked for it
RenderSingleDiagram(code_to_process) ==
    RenderWithPicked(PickRenderer(code_to_process), code_to_process)

\* the loop over all_extracted_codes that fills rendered_html_parts
\* "if rendered_html: rendered_html_parts.append(rendered_html)"
AppendIfRendered(rendered, source) ==
    IF rendered.doc = NoHtml THEN <<>>
    ELSE <<[doc |-> rendered.doc, picked |-> rendered.picked, source |-> source]>>

RECURSIVE RenderParts(_)
RenderParts(codes) ==
    IF codes = <<>> THEN <<>>
    ELSE IF Strip(Head(codes)) = "" THEN RenderParts(Tail(codes))
    ELSE AppendIfRendered(RenderSingleDiagram(Head(codes)), Head(codes))
         \o RenderParts(Tail(codes))

\* render_diagram_auto: none is Python None; otherwise docs[i] is the i-th
\* document of the text "\n".join(rendered_html_parts), rendered from the
\* block sources[i] by the renderer picked[i]; blocks is all_extracted_codes
JoinRenderedParts(parts, all_extracted_codes) ==
    [none    |-> parts = <<>>,
     docs    |-> [i \in 1..Len(parts) |-> parts[i].doc],
     picked  |-> [i \in 1..Len(parts) |-> parts[i].picked],
     sources |-> [i \in 1..Len(parts) |-> parts[i].source],
     blocks  |-> all_extracted_codes]

\* "if not all_extracted_codes: all_extracted_codes = [code]"
CodesToRender(extracted, text) == IF extracted = <<>> THEN <<text>> ELSE extracted

RenderAllCodes(all_extracted_codes) ==
    JoinRenderedParts(RenderParts(all_extracted_codes), all_extracted_codes)

RenderDiagramAuto(text) ==
    RenderAllCodes(CodesToRender(ExtractAllCodeBlocks(text, KnownPrefixes), text))

(***************************************************************************)
(* Input texts.                                                            *)
(***************************************************************************)
SampleAliceBob == "@startuml\nparticipant Alice\nparticipant Bob\nAlice -> Bob: Hi\n@enduml"
SampleUserSystem == "@startuml\nparticipant User\nUser -> System\n@enduml"
SampleMindmap == "@startmindmap\n* root\n@endmindmap"
SampleDigraph == "digraph G { A -> B }"
SampleDigraphLines == "digraph G {\n    A -> B\n    B -> C\n}"
SampleFlowchart == "graph TD\nA-->B"
SampleRandomText == "some random text"

Samples ==
    {SampleAliceBob, SampleUserSystem, SampleMindmap, SampleDigraph, SampleDigraphLines,
     SampleFlowchart, SampleRandomText, "", "   ", "\n\n\n", "\t\t"}

\* every text of at most n lines over a lexicon of lines
TextsOver(lexicon, n) ==
    {Join(ls, "\n") : ls \in UNION {[1..k -> lexicon] : k \in 0..n}}

DetectLexicon ==
    {"@startuml", "@enduml", "participant Alice", "participant Bob as B", "actor User",
     "Alice -> Bob: Hi", "Alice -> Bob", "User->>Server: Request", "graph TD", "A-->B",
     "digraph G {", "class User", "entity Data", "@startmindmap", "some random text",
     "quadrantChart", "xychart-beta", "  ", ""}

SampleParticipantsArrow == "participant Alice\nparticipant Bob\nAlice -> Bob"
SampleAliasRequest == "participant User as U\nUser->>Server: Request"

DetectInputs ==
    Samples \cup {SampleParticipantsArrow, SampleAliasRequest}
    \cup TextsOver(DetectLexicon, MaxLines)

(***************************************************************************)
(* State machine: one call of an entry point on the chosen text.           *)
(***************************************************************************)
Unset == "unset"

RendererNames == {"mermaid", "plantuml", "graphviz"}

InitWith(inputs, configs) ==
    /\ code \in inputs
    /\ assets \in configs
    /\ pc = "ready"
    /\ detected = Unset
    /\ renderer = Unset
    /\ cleaned = Unset
    /\ recleaned = Unset
    /\ dot = Unset
    /\ result = Unset

\* DiagramRenderer.detect_diagram_type(code)
DetectDiagramType ==
    /\ pc = "ready"
    /\ detected' = FirstDetecting(code)
    /\ pc' = "detected"
    /\ UNCHANGED <<code, assets, renderer, cleaned, recleaned, dot, result>>

\* DiagramRenderer.render_diagram_auto(code)
RenderDiagramAutoCall ==
    /\ pc = "ready"
    /\ result' = RenderDiagramAuto(code)
    /\ pc' = "rendered"
    /\ UNCHANGED <<code, assets, detected, renderer, cleaned, recleaned, dot>>

\* r.clean_code(code), and r.clean_code applied to what it returned
CleanCodeCall(r) ==
    /\ pc = "ready"
    /\ renderer' = r
    /\ cleaned' = CleanCode(r, code)
    /\ recleaned' = CleanCode(r, CleanCode(r, code))
    /\ pc' = "cleaned"
    /\ UNCHANGED <<code, assets, detected, dot, result>>

\* PlantUMLRenderer.convert_plantuml_to_dot(code)
ConvertPlantumlToDotCall ==
    /\ pc = "ready"
    /\ renderer' = "plantuml"
    /\ dot' = ConvertPlantumlToDot(code)
    /\ pc' = "converted"
    /\ UNCHANGED <<code, assets, detected, cleaned, recleaned, result>>

(***************************************************************************)
(* Detection: DiagramRenderer.detect_diagram_type on unfenced texts.       *)
(***************************************************************************)
InitDetect == InitWith(DetectInputs, {RequiredAssets})

NextDetect == DetectDiagramType

SpecDetect == InitDetect /\ [][NextDetect]_vars

(***************************************************************************)
(* The facade: detection and rendering of texts, fenced or not.            *)
(***************************************************************************)
\* a fenced block with the given tag
Fenced(tag, body) == Fence \o tag \o "\n" \o body \o "\n" \o Fence

FenceTags == {"", "mermaid", "plantuml"}

FenceBodies == {"graph TD\nA-->B", "actor User", "some random text", ""}

FenceSeparators == {"\n", "\n\nprose\n\n"}

\* every text of n fenced blocks
RECURSIVE FencedTexts(_)
FencedTexts(n) ==
    IF n = 1 THEN {Fenced(t, b) : t \in FenceTags, b \in FenceBodies}
    ELSE {head \o sep \o Fenced(t, b) :
            head \in FencedTexts(n - 1), sep \in FenceSeparators,
            t \in FenceTags, b \in FenceBodies}

FacadeLexicon ==
    {"@startuml", "participant Alice", "Alice -> Bob: Hi", "graph TD", "digraph G {",
     "class User", "some random text", "@startmindmap", "actor", "  ",
     "A[\"x\\y\"]-->B", "<script>alert(1)</script>"}

FacadeInputs ==
    Samples \cup TextsOver(FacadeLexicon, MaxLines)
    \cup UNION {FencedTexts(n) : n \in 1..MaxBlocks}

\* what the loader can deliver: everything, everything but the optional
\* plugins, the graph engine missing, or the template missing
AssetConfigs ==
    {RequiredAssets \cup PluginAssets, RequiredAssets, RequiredAssets \ {"viz-lite.js"},
     RequiredAssets \ {"unified.html"}}

Init == InitWith(FacadeInputs, AssetConfigs)

Next == DetectDiagramType \/ RenderDiagramAutoCall

Spec == Init /\ [][Next]_vars

(***************************************************************************)
(* Normalization: clean_code of each renderer.                             *)
(***************************************************************************)
CleanLexicon ==
    {"@startuml", "@enduml", "@startmindmap", "@start", "Alice -> Bob", "  ", "",
     "note: @startuml and @enduml here", "graph TD"}

CleanInputs == Samples \cup TextsOver(CleanLexicon, MaxLines)

InitClean == InitWith(CleanInputs, {RequiredAssets})

NextClean == \E r \in RendererNames : CleanCodeCall(r)

SpecClean == InitClean /\ [][NextClean]_vars

(***************************************************************************)
(* Translation: convert_plantuml_to_dot.                                   *)
(***************************************************************************)
ConvertLexicon ==
    {"participant Alice", "participant Bob", "participant Bob as B", "actor User", "actor",
     "Alice -> Bob: Hi", "Alice -> Bob", "Alice -> Bob: a->b", "A -> B -> C",
     "class User", "Animal <|-- Dog", "@startmindmap", "some unknown syntax", "",
     "refactor it", "subclasses", "object Foo", "Alice -> Bob: say \"hi\"",
     "Alice --> Bob", "participant \"Al Smith\""}

ConvertInputs == Samples \cup TextsOver(ConvertLexicon, MaxLines)

InitConvert == InitWith(ConvertInputs, {RequiredAssets})

NextConvert == ConvertPlantumlToDotCall

SpecConvert == InitConvert /\ [][NextConvert]_vars

(***************************************************************************)
(* Assembly: render_html of the Mermaid and PlantUML renderers, with every *)
(* single required asset missing in turn.                                  *)
(***************************************************************************)
\* renderer.render_html(code) called directly on the renderer r
RenderHtmlCall(r) ==
    /\ pc = "ready"
    /\ renderer' = r
    /\ result' = RenderHtml(r, code)
    /\ pc' = "html"
    /\ UNCHANGED <<code, assets, detected, cleaned, recleaned, dot>>

RenderLexicon ==
    {"graph TD", "A-->B", "participant Alice", "Alice -> Bob: Hi", "class User",
     "@startmindmap", "start", ":start;", "object Foo", "xychart-beta", "A[Sankey report] --> B"}

RenderInputs == Samples \cup TextsOver(RenderLexicon, MaxLines)

RenderAssetConfigs ==
    {RequiredAssets \cup PluginAssets, RequiredAssets}
    \cup {RequiredAssets \ {a} : a \in RequiredAssets}

InitRender == InitWith(RenderInputs, RenderAssetConfigs)

NextRender == \E r \in {"mermaid", "plantuml"} : RenderHtmlCall(r)

SpecRender == InitRender /\ [][NextRender]_vars

(***************************************************************************)
(* Template assembly: the placeholders of the unified template are filled  *)
(* by successive str.replace calls.                                        *)
(***************************************************************************)
\* s.replace(old, new) from position from on: every non-overlapping
\* occurrence, left to right; inserted text is not scanned again
RECURSIVE ReplaceFrom(_, _, _, _)
ReplaceFrom(s, old, new, from) ==
    IF Find(s, old, from) = 0 THEN SubSeq(s, from, Len(s))
    ELSE SubSeq(s, from, Find(s, old, from) - 1) \o new
         \o ReplaceFrom(s, old, new, Find(s, old, from) + Len(old))

Replace(s, old, new) == ReplaceFrom(s, old, new, 1)

\* the stub of the template that the renderer's script replaces (abridged)
default_render_function == "function renderDiagram() { /* default */ }"

\* _generate_mermaid_rendering_script: the script text with the two
\* interpolated values (the fixed script text abridged)
GenerateMermaidRenderingScript(clean_code, escaped_original) ==
    "async function renderDiagram() { const code = " \o BackQuote \o clean_code
    \o BackQuote \o "; <pre>" \o escaped_original \o "</pre> }"

\* the VizJS script of _render_unified_html with its interpolated values
\* (the fixed script text abridged)
VizjsRenderingScript(escaped_dot, escaped_original) ==
    "function renderDiagram() { const dotCode = " \o escaped_dot
    \o "; <pre>" \o escaped_original \o "</pre> }"

\* MermaidRenderer._populate_mermaid_template
PopulateMermaidTemplate(template, mermaid_js, panzoom_js, clean_code, escaped_original, mermaid_script) ==
    Replace(
      Replace(
        Replace(
          Replace(
            Replace(template, "{js_content}", mermaid_js),
            "{panzoom_js_content}", panzoom_js),
          "{diagram_content}", "<div class=\"mermaid\">" \o clean_code \o "</div>"),
        "{escaped_original}", escaped_original),
      default_render_function, mermaid_script)

\* the assembly steps of MermaidRenderer.render_html once the engine, the
\* pan/zoom library and the template are loaded and no plugin is loaded
MermaidAssemble(template, mermaid_js, panzoom_js, original_code) ==
    PopulateMermaidTemplate(template, mermaid_js, panzoom_js,
        MermaidCleanCode(original_code), JsonDumps(original_code),
        GenerateMermaidRenderingScript(MermaidCleanCode(original_code),
                                       JsonDumps(original_code)))

\* the assembly steps of BaseRenderer._render_unified_html once the
\* libraries and the template are loaded
UnifiedAssemble(template, viz_js_content, panzoom_js_content, dot_code, original_code) ==
    Replace(
      Replace(
        Replace(
          Replace(
            Replace(template, "{js_content}", viz_js_content),
            "{panzoom_js_content}", panzoom_js_content),
          "{diagram_content}", ""),
        "{escaped_original}", JsonDumps(original_code)),
      default_render_function,
      VizjsRenderingScript(JsonDumps(dot_code), JsonDumps(original_code)))

\* unified templates: each placeholder once, the stub in the last script
Templates ==
    {"<script>{js_content}</script><script>{panzoom_js_content}</script>"
       \o "<div>{diagram_content}</div><script>const src = {escaped_original}; "
       \o default_render_function \o "</script>",
     "<div>{diagram_content}</div><script>const src = {escaped_original}; "
       \o default_render_function \o "</script>"
       \o "<script>{panzoom_js_content}</script><script>{js_content}</script>"}

\* contents the loader can deliver for a library file
AssetTexts ==
    {"/* lib */", "var t = '{panzoom_js_content}';", "var d = '{diagram_content}';"}

\* diagram sources handed to the assembly
AssembleSources ==
    {"graph TD\nA-->B", "graph TD\nA[\"{escaped_original}\"]-->B",
     "graph TD\nA[{js_content}]-->B", "participant Alice"}

\* graph texts handed to _render_unified_html
AssembleDots == {"digraph G {}", "digraph G { \"{escaped_original}\"; }"}

\* MermaidRenderer.render_html(code), assembly path
MermaidAssembleCall ==
    /\ pc = "ready"
    /\ renderer' = "mermaid"
    /\ \E template \in Templates, mermaid_js \in AssetTexts, panzoom_js \in AssetTexts :
           result' = [template |-> template, js |-> mermaid_js, panzoom |-> panzoom_js,
                      dot |-> "",
                      html |-> MermaidAssemble(template, mermaid_js, panzoom_js, code)]
    /\ pc' = "assembled"
    /\ UNCHANGED <<code, assets, detected, cleaned, recleaned, dot>>

\* BaseRenderer._render_unified_html(dot_code, code), assembly path
RenderUnifiedHtmlCall ==
    /\ pc = "ready"
    /\ renderer' = "plantuml"
    /\ \E template \in Templates, viz_lite \in AssetTexts, panzoom_js \in AssetTexts,
          dot_code \in AssembleDots :
           result' = [template |-> template, js |-> viz_lite \o "\n" \o "/* lib */",
                      panzoom |-> panzoom_js, dot |-> dot_code,
                      html |-> UnifiedAssemble(template, viz_lite \o "\n" \o "/* lib */",
                                               panzoom_js, dot_code, code)]
    /\ pc' = "assembled"
    /\ UNCHANGED <<code, assets, detected, cleaned, recleaned, dot>>

InitAssemble == InitWith(AssembleSources, {RequiredAssets})

NextAssemble == MermaidAssembleCall \/ RenderUnifiedHtmlCall

SpecAssemble == InitAssemble /\ [][NextAssemble]_vars

(***************************************************************************)
(* Properties of detection and of the facade.                              *)
(***************************************************************************)
\* the name the fixed precedence Mermaid, PlantUML, Graphviz gives a text
Precedence(text) ==
    IF MermaidDetect(text) THEN "mermaid"
    ELSE IF PlantUMLDetect(text) THEN "plantuml"
    ELSE IF GraphvizDetect(text) THEN "graphviz"
    ELSE "none"

HasPlantUMLStrongMarker(text) ==
    ContainsAny(Lower(Strip(text)), strong_plantuml_indicators)

\* some strong or external Mermaid indicator occurs in the text
HasMermaidStrongIndicator(text) ==
    \/ ContainsAny(Lower(Strip(text)), strong_mermaid_indicators)
    \/ ContainsAny(Lower(Strip(text)), external_diagram_indicators)

\* C2: a text with a PlantUML strong marker and no Mermaid strong indicator
\* is detected as plantuml, also when it declares participants and uses
\* colon-labelled arrows or "as" aliases.
C2_StrongMarkerWins ==
    (pc = "detected" /\ HasPlantUMLStrongMarker(code) /\ ~HasMermaidStrongIndicator(code))
        => detected = "plantuml"

\* C3: the mind-map sample is detected as plantuml, and with all required
\* assets present render_diagram_auto returns for it the unsupported-construct
\* document, which carries the status marker, names the mind-map feature and
\* contains the original text.
C3_MindmapUnsupported ==
    (code = SampleMindmap /\ RequiredAssets \subseteq assets) =>
        /\ pc = "detected" => detected = "plantuml"
        /\ pc = "rendered" =>
               /\ ~result.none
               /\ Len(result.docs) = 1
               /\ result.docs[1].kind = "unsupported"
               /\ result.docs[1].marker
               /\ Contains(result.docs[1].detail, "Mind maps")
               /\ Contains(result.docs[1].source, code)

\* the text opens with a directed-graph header: digraph, a name, a brace
OpensWithDigraphHeader(text) ==
    LET words == SplitWords(text)
    IN  Len(words) >= 3 /\ words[1] = "digraph" /\ words[3] = "{"

\* C4: a source that opens with a directed-graph header is detected as
\* graphviz and is rendered by the Graphviz renderer, without translation.
C4_DigraphIsGraphviz ==
    OpensWithDigraphHeader(code) =>
        /\ pc = "detected" => detected = "graphviz"
        /\ pc = "rendered" => result.picked = <<"graphviz">>

\* every token of the indicator lists of the three detectors
AllIndicatorTokens ==
    strong_mermaid_indicators \o external_diagram_indicators
    \o strong_plantuml_indicators \o plantuml_weak_indicators \o graphviz_indicators
    \o <<"participant ", "actor ", "class ">>

NonBlank(blocks) == SelectSeq(blocks, LAMBDA b : Strip(b) # "")

C7_CleanIdempotent == pc = "cleaned" => recleaned = cleaned

\* PlantUML clean_code has inserted markers around a text that had none, and
\* cleaning its result again has changed nothing
C7_Witness ==
    /\ pc = "cleaned"
    /\ renderer = "plantuml"
    /\ ~Contains(code, "@start") /\ ~Contains(code, "@enduml")
    /\ cleaned # Strip(code)
    /\ recleaned = cleaned

SourceLines(text) == Split(PlantUMLCleanCode(text), "\n")

\* a participant/actor declaration: the keyword and a name behind it
IsDeclarationLine(line) ==
    /\ StartsWith(Strip(line), "participant") \/ StartsWith(Strip(line), "actor")
    /\ Len(SplitWords(line)) >= 2

\* a line with an arrow token that is not a declaration
IsArrowLine(line) ==
    /\ Contains(line, "->")
    /\ ~(StartsWith(Strip(line), "participant") \/ StartsWith(Strip(line), "actor"))

\* the text behind the first ":" on the target side of the first arrow
ArrowLabel(line) ==
    LET target == SubSeq(line, Find(line, "->", 1) + 2, Len(line))
    IN  IF Contains(target, ":") THEN Strip(SplitMax(target, ":", 1)[2]) ELSE ""

\* C9: for a sequence-style source the translation holds one node statement
\* per declaration line and one edge statement per arrow line, in line order,
\* each edge labelled with the text behind ":" on its target side; the
\* Alice/Bob sample gives the two nodes Alice, Bob and one edge labelled Hi.
C9_OneStatementPerLine ==
    (pc = "converted" /\ dot.branch = "sequence" /\ ~dot.raised) =>
        LET declarations == SelectSeq(SourceLines(code), IsDeclarationLine)
            arrows == SelectSeq(SourceLines(code), IsArrowLine)
        IN  /\ Len(dot.nodes) = Len(declarations)
            /\ Len(dot.edges) = Len(arrows)
            /\ \A i \in 1..Len(dot.edges) :
                   ArrowLabel(arrows[i]) # "" =>
                       Contains(dot.edges[i], "[label=\"" \o ArrowLabel(arrows[i]) \o "\"]")
            /\ code = SampleAliceBob =>
                   /\ dot.nodes = <<"  \"Alice\";\n", "  \"Bob\";\n">>
                   /\ dot.edges = <<"  \"Alice\" -> \"Bob\" [label=\"Hi\"];\n">>

\* C10: convert_plantuml_to_dot returns for every text, without raising,
\* a DOT graph or an UNSUPPORTED_PLANTUML_TYPE descriptor.
C10_ConvertTotal ==
    pc = "converted" =>
        /\ ~dot.raised
        /\ StartsWith(dot.text, "digraph ") \/ StartsWith(dot.text, UnsupportedPrefix)

(***************************************************************************)
(* Properties of the documents render_diagram_auto returns.                *)
(***************************************************************************)
\* C11: the documents of render_diagram_auto come in the order in which
\* their blocks occur in the input: when two different blocks have been
\* rendered, the block of the first document stands in the input before the
\* block of the second, whichever tags the two fences carry.
C11_SourceOrder ==
    (/\ pc = "rendered"
     /\ ~result.none
     /\ Len(result.sources) = 2
     /\ result.sources[1] \in FenceBodies
     /\ result.sources[2] \in FenceBodies
     /\ result.sources[1] # result.sources[2]) =>
        Find(code, result.sources[1], 1) < Find(code, result.sources[2], 1)
\* what render_html of the picked renderer does with the cleaned block
OutcomeOf(i) ==
    RenderHtml(result.picked[i], CleanCode(result.picked[i], result.sources[i]))

C13_StatusMarker ==
    pc = "rendered" =>
        \A i \in 1..Len(result.docs) :
            result.docs[i].marker <=> result.docs[i].kind # "success"
\* C14: every document of a result of render_diagram_auto is a complete
\* standalone HTML document that declares the UTF-8 charset, success or error
\* alike, the missing-asset and missing-template cases included.
C14_CompleteDocuments ==
    (pc = "rendered" /\ ~result.none) =>
        \A i \in 1..Len(result.docs) : result.docs[i].complete
(***************************************************************************)
(* Properties of render_html.                                              *)
(***************************************************************************)
\* the assets render_html of a renderer loads on its way to a success document
AssetsLoadedBy(r) ==
    IF r = "mermaid" THEN {"mermaid.min.js", "panzoom.min.js", "unified.html"}
    ELSE {"panzoom.min.js", "viz-lite.js", "viz-full.js", "unified.html"}

\* the text reaches the assembly step: no plugin is required of the Mermaid
\* renderer, and the PlantUML translation is a DOT string
ReachesAssembly(r, text) ==
    IF r = "mermaid" THEN DetectExternalDiagramRequirements(text) = <<>>
    ELSE /\ ~ConvertPlantumlToDot(text).raised
         /\ ConvertPlantumlToDot(text).branch # "unsupported"

\* C15: when one of the assets a renderer loads (mermaid.min.js,
\* panzoom.min.js, viz-lite.js, viz-full.js, the unified template) is not
\* available, render_html of the Mermaid renderer and of the PlantUML
\* renderer returns the missing-asset error result and does not raise,
\* whichever asset is the missing one.
C15_MissingAssetNoRaise ==
    (/\ pc = "html"
     /\ ReachesAssembly(renderer, code)
     /\ \E a \in AssetsLoadedBy(renderer) : ~Available(a)) =>
        /\ ~result.raised
        /\ result.doc.kind = "missing_asset"
\* the descriptions of the table of unsupported shapes
UnsupportedDescriptions == {unsupported_types[i][3] : i \in 1..Len(unsupported_types)}

RECURSIVE UnescapeFrom(_, _)
UnescapeFrom(s, i) ==
    IF i > Len(s) THEN ""
    ELSE IF Ch(s, i) = "\\"
    THEN (CASE Ch(s, i + 1) = "n" -> "\n"
            [] Ch(s, i + 1) = "t" -> "\t"
            [] Ch(s, i + 1) = "r" -> "\r"
            [] OTHER -> Ch(s, i + 1)) \o UnescapeFrom(s, i + 2)
    ELSE Ch(s, i) \o UnescapeFrom(s, i + 1)

\* the text a double-quoted string literal stands for
StringLiteralValue(literal) == UnescapeFrom(SubSeq(literal, 2, Len(literal) - 1), 1)

\* C17: for every block render_diagram_auto rendered with success, the value
\* put in for the escaped-source placeholder is a string literal that
\* decodes to the text of that block exactly: quotes, backslashes and
\* leading and trailing blanks kept, and no marker of the normalization added.
C17_EscapedSourceRoundTrip ==
    pc = "rendered" =>
        \A i \in 1..Len(result.docs) :
            result.docs[i].kind = "success" =>
                StringLiteralValue(result.docs[i].source) = result.sources[i]
(***************************************************************************)
(* Properties of the class-style translation and of the dispatch.          *)
(***************************************************************************)
\* a class declaration
IsClassLine(line) == StartsWith(Strip(line), "class ")

\* an inheritance line "P <|-- C" that is not a class declaration
IsInheritanceLine(line) == ~IsClassLine(line) /\ Contains(line, "<|--")

\* the edge statement from the name left of the marker, the parent on the
\* side of the hollow arrowhead, to the name right of it, the child
ParentToChildEdge(line) ==
    "  \"" \o Strip(Split(line, "<|--")[1]) \o "\" -> \""
    \o Strip(Split(line, "<|--")[2]) \o "\" [arrowhead=empty];\n"

\* C18: in class-style translation every line that starts with "class "
\* gives exactly one node statement, and every inheritance line "P <|-- C"
\* gives exactly one edge statement, directed from the parent P to the child
\* C and carrying arrowhead=empty.
C18_ClassStatements ==
    (pc = "converted" /\ dot.branch = "class" /\ ~dot.raised) =>
        LET classes == SelectSeq(SourceLines(code), IsClassLine)
            inheritances == SelectSeq(SourceLines(code), IsInheritanceLine)
        IN  /\ Len(dot.nodes) = Len(classes)
            /\ Len(dot.edges) = Len(inheritances)
            /\ \A i \in 1..Len(dot.edges) :
                   dot.edges[i] = ParentToChildEdge(inheritances[i])
\* C19: convert_plantuml_to_dot never returns an empty graph: a translation
\* of the sequence-style or class-style branch has at least one node or edge
\* statement (a source in which those branches find nothing is answered by
\* the unsupported-classification step).
C19_NoEmptyGraph ==
    (pc = "converted" /\ ~dot.raised /\ dot.branch \in {"sequence", "class"}) =>
        dot.nodes # <<>> \/ dot.edges # <<>>
\* some line of the normalized source contains the token
SomeLineContains(text, token) ==
    \E i \in 1..Len(SourceLines(text)) : Contains(SourceLines(text)[i], token)

\* the table entry with the given pattern occurs in the lower-cased
\* normalized source
EntryMatches(text, i) == Contains(Lower(PlantUMLCleanCode(text)), unsupported_types[i][1])

\* C20: convert_plantuml_to_dot decides in a fixed order: sequence-style when
\* a line contains "participant", "actor" or "->"; else class-style when a
\* line contains "class"; else the first entry of the table of unsupported
\* shapes (mind map, salt, gantt, activity, object, timing) whose pattern
\* occurs in the lower-cased source gives the descriptor with its id and
\* description.  The mind-map sample gives the mindmap descriptor, and a
\* source that matches two entries gives the earlier one.
C20_DispatchOrder ==
    pc = "converted" =>
        IF \/ SomeLineContains(code, "participant")
           \/ SomeLineContains(code, "actor")
           \/ SomeLineContains(code, "->")
        THEN dot.branch = "sequence"
        ELSE IF SomeLineContains(code, "class")
        THEN dot.branch = "class"
        ELSE /\ \A i \in 1..Len(unsupported_types) :
                    (EntryMatches(code, i) /\ \A j \in 1..(i - 1) : ~EntryMatches(code, j)) =>
                        /\ dot.branch = "unsupported"
                        /\ dot.text = UnsupportedPrefix \o unsupported_types[i][2]
                                      \o ":" \o unsupported_types[i][3]
             /\ code = SampleMindmap =>
                    dot.text = "UNSUPPORTED_PLANTUML_TYPE:mindmap:Mind maps"

\* a source that matches the mind-map entry and the object entry has been
\* translated to the mindmap descriptor
C20_Witness ==
    /\ pc = "converted"
    /\ EntryMatches(code, 1)
    /\ EntryMatches(code, 6)
    /\ dot.branch = "unsupported"
    /\ dot.text = "UNSUPPORTED_PLANTUML_TYPE:mindmap:Mind maps"
\* the source has no arrow, participant, actor or class text and matches no
\* entry of the table of unsupported shapes
ShapeUnrecognized(text) ==
    /\ ~SomeLineContains(text, "participant")
    /\ ~SomeLineContains(text, "actor")
    /\ ~SomeLineContains(text, "->")
    /\ ~SomeLineContains(text, "class")
    /\ \A i \in 1..Len(unsupported_types) : ~EntryMatches(text, i)

RECURSIVE SkeletonFrom(_, _, _)
SkeletonFrom(s, i, quoted) ==
    IF i > Len(s) THEN (IF quoted THEN "!" ELSE "")
    ELSE IF quoted
    THEN IF Ch(s, i) = "\\" THEN SkeletonFrom(s, i + 2, TRUE)
         ELSE IF Ch(s, i) = "\"" THEN "$" \o SkeletonFrom(s, i + 1, FALSE)
         ELSE SkeletonFrom(s, i + 1, TRUE)
    ELSE IF Ch(s, i) = "\"" THEN SkeletonFrom(s, i + 1, TRUE)
    ELSE Ch(s, i) \o SkeletonFrom(s, i + 1, FALSE)

Skeleton(stmt) == SkeletonFrom(stmt, 1, FALSE)

\* the shapes of a node statement and of an edge statement whose
\* identifiers and label values are each one quoted string
WellFormedStatements ==
    {"  $;\n", "  $ -> $;\n", "  $ -> $ [label=$];\n",
     "  $ [label=$];\n", "  $ -> $ [arrowhead=empty];\n"}

\* C22: every result of convert_plantuml_to_dot is a descriptor or a
\* well-formed DOT text: it opens with a digraph header, ends with the
\* closing brace, and in every node and edge statement each quoted
\* identifier and each label value is one properly delimited string, also
\* when a name or label holds a double quote.
C22_WellFormedDot ==
    (pc = "converted" /\ ~dot.raised) =>
        \/ StartsWith(dot.text, UnsupportedPrefix)
        \/ /\ StartsWith(dot.text, "digraph ")
           /\ EndsWith(dot.text, "}")
           /\ \A i \in 1..Len(dot.nodes) : Skeleton(dot.nodes[i]) \in WellFormedStatements
           /\ \A i \in 1..Len(dot.edges) : Skeleton(dot.edges[i]) \in WellFormedStatements
(***************************************************************************)
(* Properties of the extraction of fenced blocks.                          *)
(***************************************************************************)
\* C23: the whole input is one block only when it has no fenced region; an
\* input whose fenced regions are all empty after trimming leaves no block,
\* and render_diagram_auto returns None for it instead of rendering the
\* input with its fence lines.
C23_EmptyFencesGiveNone ==
    pc = "rendered" =>
        /\ result.blocks = <<code>> => ~Contains(code, Fence)
        /\ (Contains(code, Fence) /\ ExtractAllCodeBlocks(code, KnownPrefixes) = <<>>) =>
               result.none
(***************************************************************************)
(* Properties of the two detectors taken together.                         *)
(***************************************************************************)
\* the text as both detectors read it: trimmed and lower-cased
AsDetected(text) == Lower(Strip(text))

\* the text has a participant or actor declaration and no strong indicator
\* of either grammar (the plugin-dependent Mermaid kinds included)
WeakRuleOnly(text) ==
    /\ Contains(AsDetected(text), "participant ") \/ Contains(AsDetected(text), "actor ")
    /\ ~ContainsAny(AsDetected(text), strong_mermaid_indicators)
    /\ ~ContainsAny(AsDetected(text), external_diagram_indicators)
    /\ ~ContainsAny(AsDetected(text), strong_plantuml_indicators)

\* the syntax that goes with a Mermaid sequence diagram
MermaidStyle(text) ==
    \/ Contains(AsDetected(text), "-->")
    \/ Contains(AsDetected(text), "->>")
    \/ /\ Contains(AsDetected(text), "participant ")
       /\ Contains(AsDetected(text), "as ") \/ Contains(AsDetected(text), ":")

\* C24: for a text with "participant " or "actor " and no strong indicator
\* of either grammar exactly one of the Mermaid and PlantUML detectors
\* fires: Mermaid when the text also has "-->", "->>" or, with
\* "participant ", an "as " alias or a ":"; PlantUML otherwise.  The two
\* participants with a plain arrow are PlantUML only, the alias with the
\* "->>" request is Mermaid only.  Texts are read trimmed and lower-cased.
C24_WeakRuleExclusive ==
    pc = "detected" =>
        /\ WeakRuleOnly(code) =>
               /\ MermaidDetect(code) # PlantUMLDetect(code)
               /\ MermaidDetect(code) <=> MermaidStyle(code)
               /\ detected = IF MermaidStyle(code) THEN "mermaid" ELSE "plantuml"
        /\ code = SampleParticipantsArrow => ~MermaidDetect(code) /\ PlantUMLDetect(code)
        /\ code = SampleAliasRequest => MermaidDetect(code) /\ ~PlantUMLDetect(code)

\* the two participants with a plain arrow have been detected as plantuml
C24_Witness ==
    /\ pc = "detected"
    /\ code = SampleParticipantsArrow
    /\ WeakRuleOnly(code)
    /\ detected = "plantuml"
(***************************************************************************)
(* Properties of block extraction.                                         *)
(***************************************************************************)
\* the inputs made of exactly two tagged fenced blocks with a body each
TwoTaggedBlocks ==
    {Fenced(t1, b1) \o sep \o Fenced(t2, b2) :
        t1 \in FenceTags \ {""}, t2 \in FenceTags \ {""},
        b1 \in FenceBodies \ {""}, b2 \in FenceBodies \ {""},
        sep \in FenceSeparators}

\* C25: every block extracted from an input with fenced regions is the
\* trimmed body of one of its fenced regions, text outside every fence is
\* never a block, and an input of exactly two tagged fenced blocks gives
\* exactly two blocks and two documents.
C25_BlocksAreFenceBodies ==
    (pc = "rendered" /\ code \in UNION {FencedTexts(n) : n \in 1..MaxBlocks}) =>
        /\ \A i \in 1..Len(ExtractAllCodeBlocks(code, KnownPrefixes)) :
               ExtractAllCodeBlocks(code, KnownPrefixes)[i] \in FenceBodies \ {""}
        /\ code \in TwoTaggedBlocks =>
               /\ Len(result.blocks) = 2
               /\ Len(result.docs) = 2
\* C26: on a text without a PlantUML strong marker the Mermaid and the
\* PlantUML detector never both return true, whichever Mermaid strong or
\* external keyword is combined with a PlantUML weak indicator such as a
\* "class " declaration or a line starting with "entity ".
C26_DetectorsExclusive ==
    (pc = "detected" /\ ~ContainsAny(AsDetected(code), strong_plantuml_indicators)) =>
        ~(MermaidDetect(code) /\ PlantUMLDetect(code))
(***************************************************************************)
(* Properties of template assembly.                                        *)
(***************************************************************************)
\* the token of tokens that starts at position i of s, or "" if none does
TokenStartsAt(s, i, t) == i + Len(t) - 1 <= Len(s) /\ SubSeq(s, i, i + Len(t) - 1) = t

TokenAt(s, i, tokens) ==
    IF \E t \in tokens : TokenStartsAt(s, i, t)
    THEN CHOOSE t \in tokens : TokenStartsAt(s, i, t)
    ELSE ""

\* the template with every token replaced by its value in one pass, so
\* that no inserted text is looked at again
RECURSIVE FillFrom(_, _, _)
FillFrom(template, values, i) ==
    IF i > Len(template) THEN ""
    ELSE IF TokenAt(template, i, DOMAIN values) # ""
         THEN values[TokenAt(template, i, DOMAIN values)]
              \o FillFrom(template, values, i + Len(TokenAt(template, i, DOMAIN values)))
         ELSE SubSeq(template, i, i) \o FillFrom(template, values, i + 1)

\* the values the call in result puts in for the tokens
ValuesSupplied ==
    IF renderer = "mermaid"
    THEN ("{js_content}" :> result.js) @@ ("{panzoom_js_content}" :> result.panzoom)
         @@ ("{diagram_content}" :>
                "<div class=\"mermaid\">" \o MermaidCleanCode(code) \o "</div>")
         @@ ("{escaped_original}" :> JsonDumps(code))
         @@ (default_render_function :>
                GenerateMermaidRenderingScript(MermaidCleanCode(code), JsonDumps(code)))
    ELSE ("{js_content}" :> result.js) @@ ("{panzoom_js_content}" :> result.panzoom)
         @@ ("{diagram_content}" :> "")
         @@ ("{escaped_original}" :> JsonDumps(code))
         @@ (default_render_function :>
                VizjsRenderingScript(JsonDumps(result.dot), JsonDumps(code)))

\* C27: in the assembled document every placeholder of the template stands
\* replaced by the value supplied for it, unchanged: a library text or a
\* diagram source that contains the text of a placeholder replaced later
\* appears exactly as supplied.
C27_InsertedTextUnchanged ==
    pc = "assembled" => result.html = FillFrom(result.template, ValuesSupplied, 1)
(***************************************************************************)
(* Properties of the plugin-dependent Mermaid kinds.                       *)
(***************************************************************************)
\* the diagram kinds that depend on a plugin or on a newer engine
PluginDependentKinds == {"xychart-beta", "sankey", "block-beta", "gitgraph"}

\* the diagram kind of the text, its leading keyword, is plugin-dependent
LeadsWithPluginKind(text) ==
    \E k \in PluginDependentKinds : StartsWith(Lower(Strip(text)), k)

\* C28: with the Mermaid engine, the pan/zoom library and the template
\* present, MermaidRenderer.render_html answers with the unsupported-diagram
\* document only when the leading keyword of the source is a
\* plugin-dependent kind; a flowchart that mentions such a word in a node
\* label is rendered as a success document.
C28_UnsupportedOnlyByKind ==
    (/\ pc = "html"
     /\ renderer = "mermaid"
     /\ {"mermaid.min.js", "panzoom.min.js", "unified.html"} \subseteq assets) =>
        /\ ~result.raised
        /\ result.doc.kind = "unsupported" => LeadsWithPluginKind(code)
        /\ code = "graph TD\nA[Sankey report] --> B" => result.doc.kind = "success"
(***************************************************************************)
(* Properties of the endpoints of sequence-style edges.                    *)
(***************************************************************************)
\* the arrow styles of a message line
ArrowStyles == {"->", "-->", "->>"}

\* where the first arrow of the line starts, 0 if it has none
ArrowStart(line) ==
    IF Find(line, "-->", 1) # 0 /\ Find(line, "-->", 1) < Find(line, "->", 1)
    THEN Find(line, "-->", 1)
    ELSE Find(line, "->", 1)

\* the arrow that starts there: the longest style that matches
ArrowOf(line) ==
    IF TokenStartsAt(line, ArrowStart(line), "-->") THEN "-->"
    ELSE IF TokenStartsAt(line, ArrowStart(line), "->>") THEN "->>"
    ELSE "->"

\* a name without the quotes around it
Unquoted(name) == StripChar(Strip(name), "\"")

\* the participant written to the left of the arrow
LeftOfArrow(line) == Unquoted(SubSeq(line, 1, ArrowStart(line) - 1))

\* what follows the arrow, and the participant written there, before any ":"
AfterArrow(line) == SubSeq(line, ArrowStart(line) + Len(ArrowOf(line)), Len(line))

RightOfArrow(line) ==
    IF Contains(AfterArrow(line), ":")
    THEN Unquoted(SubSeq(AfterArrow(line), 1, Find(AfterArrow(line), ":", 1) - 1))
    ELSE Unquoted(AfterArrow(line))

\* the line is a message between two participants
IsMessageLine(line) ==
    /\ ~StartsWith(Strip(line), "participant")
    /\ ~StartsWith(Strip(line), "actor")
    /\ ArrowStart(line) # 0

\* the edge statement is the one for the message line, whatever its label
EdgeOfMessage(edge, line) ==
    StartsWith(edge, "  \"" \o LeftOfArrow(line) \o "\" -> \"" \o RightOfArrow(line) \o "\"")

\* the line declares a participant, and the name it is referred to by
IsDeclaration(line) ==
    /\ StartsWith(Strip(line), "participant ") \/ StartsWith(Strip(line), "actor ")
    /\ Len(SplitWords(Strip(line))) >= 2

DeclaredName(line) ==
    IF Contains(line, " as ")
    THEN Unquoted(Split(Strip(line), " as ")[2])
    ELSE Unquoted(SubSeq(Strip(line), Find(Strip(line), " ", 1) + 1, Len(Strip(line))))

\* C29: in sequence-style translation every emitted edge joins exactly the
\* participant names written left and right of the arrow of a message line,
\* for each arrow style, and every declared participant has the node
\* statement of its full name, so that endpoints and node statements are
\* spelled alike and carry no arrow characters, truncation or second quotes.
C29_EdgeEndpoints ==
    (pc = "converted" /\ ~dot.raised /\ dot.branch = "sequence") =>
        /\ \A i \in 1..Len(dot.edges) :
               \E k \in 1..Len(SplitLines(code)) :
                   /\ IsMessageLine(SplitLines(code)[k])
                   /\ EdgeOfMessage(dot.edges[i], SplitLines(code)[k])
        /\ \A k \in 1..Len(SplitLines(code)) :
               IsDeclaration(SplitLines(code)[k]) =>
                   \E i \in 1..Len(dot.nodes) :
                       dot.nodes[i] = "  \"" \o DeclaredName(SplitLines(code)[k]) \o "\";\n"
(***************************************************************************)
(* Properties of the text echoed into error documents.                     *)
(***************************************************************************)
\* the text holds a script tag as live markup
LiveMarkup(text) == Contains(Lower(text), "<script")

\* C30: the source text and the exception message echoed into an error
\* document (no type detected, unsupported construct, rendering error) are
\* HTML-escaped first, so a script tag of the user's text never stands in
\* the returned error document as live markup.
C30_EchoedTextEscaped ==
    (pc = "rendered" /\ ~result.none) =>
        \A i \in 1..Len(result.docs) :
            result.docs[i].kind \in {"no_type_detected", "unsupported", "rendering_error"} =>
                /\ ~LiveMarkup(result.docs[i].source)
                /\ ~LiveMarkup(result.docs[i].detail)
====
